---- MODULE Spec2Model ----
(***************************************************************************)
(* rasa/utils/tensorflow/layers_utils.py: five stateless tensor helpers.   *)
(* A tensor is a record [shape, data]: shape is the sequence of axis sizes *)
(* and data the elements in row-major order.  Each call is one step: the   *)
(* arguments are chosen in the initial state, the action applies the       *)
(* function and stores what the caller sees (a tensor, a scalar, or the    *)
(* error raised).  The runtime operators the helpers call (tf.reshape,     *)
(* tf.pad, tf.tile, tf.gather, tf.math.equal, tf.reduce_mean,              *)
(* tf.random.uniform) are modelled by what their eager kernels compute.    *)
(***************************************************************************)
EXTENDS Integers, Sequences, FiniteSets, TLC

VARIABLES pc, fn, args, result

vars == <<pc, fn, args, result>>

(* Bounds of the model. *)
MaxRank == 3
MaxDim == 2
MaxElems == 4
MaxVal == 1
MaxCand == 2
MaxEqRank == 2

Values == 0..MaxVal

(***************************************************************************)
(* Tensors.                                                                *)
(***************************************************************************)
RECURSIVE ProdUpTo(_, _)
ProdUpTo(s, k) == IF k = 0 THEN 1 ELSE ProdUpTo(s, k - 1) * s[k]

NumElements(s) == ProdUpTo(s, Len(s))

RECURSIVE ProdFrom(_, _)
ProdFrom(s, k) == IF k > Len(s) THEN 1 ELSE s[k] * ProdFrom(s, k + 1)

(* Row-major offset (0-based) of the 0-based multi-index idx in shape s. *)
RECURSIVE OffsetUpTo(_, _, _)
OffsetUpTo(s, idx, k) ==
    IF k = 0 THEN 0 ELSE OffsetUpTo(s, idx, k - 1) * s[k] + idx[k]

Offset(s, idx) == OffsetUpTo(s, idx, Len(s))

(* The multi-index of the element at row-major offset off (0-based). *)
Unravel(s, off) ==
    [k \in 1..Len(s) |-> IF s[k] = 0 THEN 0 ELSE (off \div ProdFrom(s, k + 1)) % s[k]]

At(t, idx) == t.data[Offset(t.shape, idx) + 1]

Indices(s) == {Unravel(s, p) : p \in 0..(NumElements(s) - 1)}

MkTensor(s, d) == [shape |-> s, data |-> d]

ShapesOfRank(r) == {s \in [1..r -> 0..MaxDim] : NumElements(s) <= MaxElems}

Shapes == UNION {ShapesOfRank(r) : r \in 0..MaxRank}

TensorsOfShape(s) == {MkTensor(s, d) : d \in [1..NumElements(s) -> Values]}

Tensors == UNION {TensorsOfShape(s) : s \in Shapes}

(* Tensors with at least one element, and tensors with an axis of size 0. *)
HasElements(t) == NumElements(t.shape) >= 1

(* The tensor of shape s whose elements are base, base + 1, ... in row-major
   order: every position holds a value of its own. *)
Iota(s, base) == MkTensor(s, [p \in 1..NumElements(s) |-> base + p - 1])

Ok(t) == [status |-> "ok", value |-> t]
Raise(e) == [status |-> "error", error |-> e]
NoResult == [status |-> "none"]

(***************************************************************************)
(* tf.reshape(x, sizes) with at most one -1 in sizes (the Reshape kernel). *)
(* Zero-sized entries of sizes are left out of the product the missing     *)
(* size is inferred from, and then the zero-sized axes of the input are    *)
(* left out as well.                                                       *)
(***************************************************************************)
RECURSIVE SizesProduct(_, _)
SizesProduct(sizes, k) ==
    IF k = 0 THEN 1
    ELSE SizesProduct(sizes, k - 1) * (IF sizes[k] <= 0 THEN 1 ELSE sizes[k])

RECURSIVE InputNumElements(_, _, _)
InputNumElements(s, k, sizes_has_zero_dim) ==
    IF k = 0 THEN 1
    ELSE InputNumElements(s, k - 1, sizes_has_zero_dim)
           * (IF s[k] > 0 \/ ~sizes_has_zero_dim THEN s[k] ELSE 1)

Reshape(x, sizes) ==
    LET product == SizesProduct(sizes, Len(sizes))
        sizes_has_zero_dim == \E k \in 1..Len(sizes) : sizes[k] = 0
        unknown == {k \in 1..Len(sizes) : sizes[k] = -1}
        input_num_elements ==
            InputNumElements(x.shape, Len(x.shape), sizes_has_zero_dim)
        input_has_zero_dim ==
            sizes_has_zero_dim /\ \E k \in 1..Len(x.shape) : x.shape[k] = 0
        missing == input_num_elements \div product
        shape == [k \in 1..Len(sizes) |-> IF sizes[k] = -1 THEN missing ELSE sizes[k]]
    IN  IF Cardinality(unknown) > 1
          THEN Raise("InvalidArgumentError")
        ELSE IF unknown # {} /\ ~input_has_zero_dim
                /\ product * missing # input_num_elements
          THEN Raise("InvalidArgumentError")
        ELSE IF NumElements(shape) # NumElements(x.shape)
          THEN Raise("InvalidArgumentError")
        ELSE Ok(MkTensor(shape, x.data))

(***************************************************************************)
(* batch_flatten(x): tf.reshape(x, (-1, x.shape[-1])).  x.shape[-1] of a   *)
(* rank-0 shape raises IndexError.                                         *)
(***************************************************************************)
BatchFlattenWrongAxis(x) ==
    IF Len(x.shape) = 0 THEN Raise("IndexError")
    ELSE Reshape(x, <<x.shape[1], -1>>)

batch_flatten_of(x) ==
    IF Len(x.shape) = 0 THEN Raise("IndexError")
    ELSE Reshape(x, <<-1, x.shape[Len(x.shape)]>>)

InitBatchFlatten ==
    /\ pc = "call"
    /\ fn = "batch_flatten"
    /\ \/ \E t \in {u \in Tensors : HasElements(u)} : args = [x |-> t]
       \/ \E t \in {u \in Tensors : ~HasElements(u)} : args = [x |-> t]
    /\ result = NoResult

batch_flatten ==
    /\ pc = "call"
    /\ fn = "batch_flatten"
    /\ result' = batch_flatten_of(args.x)
    /\ pc' = "done"
    /\ UNCHANGED <<fn, args>>

SpecBatchFlatten == InitBatchFlatten /\ [][batch_flatten]_vars

Returned == pc = "done" /\ result.status = "ok"
Failed == pc = "done" /\ result.status = "error"

(* C4: for every x with at least 2 axes (axis sizes any non-negative
   integers) batch_flatten returns the 2-D tensor of shape (product of all
   axis sizes but the last, last axis size) whose element (i, j) is the
   element of x at the i-th row-major position of the leading axes and
   feature j; a 2-D x is returned unchanged. *)
C4_FlattenAnyShape ==
    (pc = "done" /\ fn = "batch_flatten" /\ Len(args.x.shape) >= 2) =>
        /\ result.status = "ok"
        /\ LET s == args.x.shape
               r == Len(s)
               out == result.value
           IN  /\ out.shape = <<ProdUpTo(s, r - 1), s[r]>>
               /\ \A idx \in Indices(s) :
                      At(out, <<OffsetUpTo(s, idx, r - 1), idx[r]>>) = At(args.x, idx)
               /\ (r = 2 => out = args.x)

(* C7 as stated: batch_flatten of a tensor with fewer than 2 axes never
   returns a tensor. *)
C7_LowRankNeverReturns ==
    (pc = "done" /\ fn = "batch_flatten" /\ Len(args.x.shape) < 2) =>
        result.status = "error"

(* C7 amended: a rank-0 x fails at the call (IndexError); a rank-1 x of
   n >= 1 elements does not fail but returns the 2-D tensor of shape (1, n)
   holding the same elements. *)
C7_LowRankAmended ==
    (pc = "done" /\ fn = "batch_flatten") =>
        /\ Len(args.x.shape) = 0 =>
               (result.status = "error" /\ result.error = "IndexError")
        /\ (Len(args.x.shape) = 1 /\ args.x.shape[1] >= 1) =>
               /\ result.status = "ok"
               /\ result.value.shape = <<1, args.x.shape[1]>>
               /\ result.value.data = args.x.data

C7_Witness ==
    /\ Returned
    /\ fn = "batch_flatten"
    /\ args.x.shape = <<2>>
    /\ result.value.shape = <<1, 2>>


(***************************************************************************)
(* tf.pad(x, paddings, "CONSTANT", constant_values=value): paddings[k] is  *)
(* <<before, after>> for axis k; a negative entry is rejected.             *)
(***************************************************************************)
Pad(x, paddings, value) ==
    IF \E k \in 1..Len(paddings) : paddings[k][1] < 0 \/ paddings[k][2] < 0
      THEN Raise("InvalidArgumentError")
    ELSE LET shape == [k \in 1..Len(x.shape) |->
                          paddings[k][1] + x.shape[k] + paddings[k][2]]
             src(idx) == [k \in 1..Len(shape) |-> idx[k] - paddings[k][1]]
             inside(j) == \A k \in 1..Len(shape) : 0 <= j[k] /\ j[k] < x.shape[k]
         IN  Ok(MkTensor(shape,
                 [p \in 1..NumElements(shape) |->
                     LET j == src(Unravel(shape, p - 1))
                     IN  IF inside(j) THEN At(x, j) ELSE value]))

(* pad_right with the padding clamped at zero: a too small target_shape
   truncates nothing and raises nothing. *)
PadRightClamped(x, target_shape, value) ==
    LET current_shape == x.shape
        right_padding == [k \in 1..Len(current_shape) |->
                             IF target_shape[k] < current_shape[k] THEN 0
                             ELSE target_shape[k] - current_shape[k]]
        padding == [k \in 1..Len(right_padding) |-> <<0, right_padding[k]>>]
    IN  Pad(x, padding, value)

(* pad_right with the two columns of the padding in the other order. *)
PadLeft(x, target_shape, value) ==
    LET current_shape == x.shape
        right_padding == [k \in 1..Len(current_shape) |->
                             target_shape[k] - current_shape[k]]
        padding == [k \in 1..Len(right_padding) |-> <<right_padding[k], 0>>]
    IN  Pad(x, padding, value)

pad_right_of(x, target_shape, value) ==
    LET current_shape == x.shape
        right_padding == [k \in 1..Len(current_shape) |->
                             target_shape[k] - current_shape[k]]
        padding == [k \in 1..Len(right_padding) |-> <<0, right_padding[k]>>]
    IN  Pad(x, padding, value)

InitPadRight ==
    /\ pc = "call"
    /\ fn = "pad_right"
    /\ \E t \in Tensors, v \in Values :
           \E ts \in ShapesOfRank(Len(t.shape)) :
               args = [x |-> t, target_shape |-> ts, value |-> v]
    /\ result = NoResult

pad_right ==
    /\ pc = "call"
    /\ fn = "pad_right"
    /\ result' = pad_right_of(args.x, args.target_shape, args.value)
    /\ pc' = "done"
    /\ UNCHANGED <<fn, args>>

SpecPadRight == InitPadRight /\ [][pad_right]_vars

Covers(target_shape, s) == \A k \in 1..Len(s) : target_shape[k] >= s[k]

InsideShape(idx, s) == \A k \in 1..Len(s) : idx[k] < s[k]

(* C3: when target_shape[k] >= S[k] on every axis, pad_right returns a
   tensor of exactly target_shape that equals x at every multi-index inside
   S and value at every multi-index outside S; when target_shape = S the
   result equals x; x=[[1,2],[3,4]] padded to (3,4) with 0 gives
   [[1,2,0,0],[3,4,0,0],[0,0,0,0]]. *)
C3_PadRight ==
    (pc = "done" /\ fn = "pad_right"
        /\ Covers(args.target_shape, args.x.shape)) =>
        /\ result.status = "ok"
        /\ result.value.shape = args.target_shape
        /\ \A idx \in Indices(args.target_shape) :
               At(result.value, idx) =
                   IF InsideShape(idx, args.x.shape) THEN At(args.x, idx)
                   ELSE args.value
        /\ (args.target_shape = args.x.shape => result.value = args.x)
        /\ pad_right_of(MkTensor(<<2, 2>>, <<1, 2, 3, 4>>), <<3, 4>>, 0)
               = Ok(MkTensor(<<3, 4>>, <<1, 2, 0, 0, 3, 4, 0, 0, 0, 0, 0, 0>>))

C3_Witness ==
    /\ Returned
    /\ fn = "pad_right"
    /\ args.x = MkTensor(<<1, 2>>, <<1, 1>>)
    /\ args.target_shape = <<2, 2>>
    /\ args.value = 0
    /\ result.value = MkTensor(<<2, 2>>, <<1, 1, 0, 0>>)

(* C10: when target_shape is smaller than x's shape on at least one axis,
   pad_right fails at the call and returns no tensor, in particular no
   truncated copy of x. *)
C10_SmallTargetFails ==
    (pc = "done" /\ fn = "pad_right"
        /\ ~Covers(args.target_shape, args.x.shape)) =>
        result.status = "error"

C10_Witness ==
    /\ Failed
    /\ fn = "pad_right"
    /\ args.x.shape = <<2, 1>>
    /\ args.target_shape = <<1, 2>>


(***************************************************************************)
(* tf.expand_dims(t, 0), tf.tile(t, multiples) and                         *)
(* tf.gather(params, indices, batch_dims=1) for params of rank 3 and       *)
(* indices of rank 2.  The CPU kernel rejects an index outside             *)
(* [0, params.shape[1]); the GPU kernel stores zeros for it.               *)
(***************************************************************************)
ExpandDims(t) == MkTensor(<<1>> \o t.shape, t.data)

Tile(t, multiples) ==
    LET shape == [k \in 1..Len(t.shape) |-> t.shape[k] * multiples[k]]
    IN  MkTensor(shape,
            [p \in 1..NumElements(shape) |->
                LET idx == Unravel(shape, p - 1)
                IN  At(t, [k \in 1..Len(shape) |-> idx[k] % t.shape[k]])])

Devices == {"CPU", "GPU"}

(* tf.gather that never rejects an index, whatever the device. *)
GatherUnchecked(params, indices, device) ==
    LET shape == <<indices.shape[1], indices.shape[2], params.shape[3]>>
        limit == params.shape[2]
    IN  Ok(MkTensor(shape,
            [p \in 1..NumElements(shape) |->
                LET idx == Unravel(shape, p - 1)
                    id == At(indices, <<idx[1], idx[2]>>)
                IN  IF id >= 0 /\ id < limit
                      THEN At(params, <<idx[1], id, idx[3]>>)
                    ELSE 0]))

(* tf.gather that gives batch row i its own row of params. *)
GatherOwnRow(params, indices, device) ==
    LET shape == <<indices.shape[1], indices.shape[2], params.shape[3]>>
    IN  Ok(MkTensor(shape,
            [p \in 1..NumElements(shape) |->
                LET idx == Unravel(shape, p - 1)
                IN  At(params, <<idx[1], idx[1], idx[3]>>)]))

Gather(params, indices, device) ==
    LET shape == <<indices.shape[1], indices.shape[2], params.shape[3]>>
        limit == params.shape[2]
        bad == \E p \in 1..Len(indices.data) :
                   indices.data[p] < 0 \/ indices.data[p] >= limit
    IN  IF params.shape[1] # indices.shape[1]
          THEN Raise("InvalidArgumentError")
        ELSE IF bad /\ device = "CPU"
          THEN Raise("InvalidArgumentError")
        ELSE Ok(MkTensor(shape,
                 [p \in 1..NumElements(shape) |->
                     LET idx == Unravel(shape, p - 1)
                         id == At(indices, <<idx[1], idx[2]>>)
                     IN  IF id >= 0 /\ id < limit
                           THEN At(params, <<idx[1], id, idx[3]>>)
                         ELSE 0]))

get_candidate_values_of(x, candidate_ids, device) ==
    LET flat == batch_flatten_of(x)
    IN  IF flat.status # "ok" THEN flat
        ELSE LET tiled_x == Tile(ExpandDims(flat.value),
                                 <<candidate_ids.shape[1], 1, 1>>)
             IN  Gather(tiled_x, candidate_ids, device)

(* Arguments of get_candidate_values: x with at least one axis and no empty
   axis, its elements 1, 2, ... so that a gathered row names the row of x it
   came from and differs from the zeros the GPU kernel stores;
   candidate_ids of shape (batch_size, num_candidates). *)
PositiveTensors ==
    {Iota(s, 1) : s \in {sh \in Shapes : Len(sh) >= 1 /\ \A k \in 1..Len(sh) : sh[k] >= 1}}

CandidateIds(batch_size) ==
    UNION {{MkTensor(<<batch_size, nc>>, d) :
               d \in [1..(batch_size * nc) -> -1..MaxDim]} :
           nc \in {c \in 0..MaxCand : batch_size * c <= MaxElems}}

InitGetCandidateValues ==
    /\ pc = "call"
    /\ fn = "get_candidate_values"
    /\ \E t \in PositiveTensors, dev \in Devices :
           \E ids \in CandidateIds(t.shape[1]) :
               args = [x |-> t, candidate_ids |-> ids, device |-> dev]
    /\ result = NoResult

get_candidate_values ==
    /\ pc = "call"
    /\ fn = "get_candidate_values"
    /\ result' = get_candidate_values_of(args.x, args.candidate_ids, args.device)
    /\ pc' = "done"
    /\ UNCHANGED <<fn, args>>

SpecGetCandidateValues == InitGetCandidateValues /\ [][get_candidate_values]_vars

BatchSize == args.x.shape[1]
NumCandidates == args.candidate_ids.shape[2]
LastAxis == args.x.shape[Len(args.x.shape)]
(* Rows of the pool batch_flatten(x): all axes of x but the last. *)
PoolRows == ProdUpTo(args.x.shape, Len(args.x.shape) - 1)

IdsWithin(n) ==
    \A p \in 1..Len(args.candidate_ids.data) :
        args.candidate_ids.data[p] >= 0 /\ args.candidate_ids.data[p] < n

DocExampleX == Iota(<<3, 3>>, 0)
DocExampleIds == MkTensor(<<3, 2>>, <<0, 1, 0, 0, 2, 0>>)
DocExampleOut ==
    MkTensor(<<3, 2, 3>>, <<0, 1, 2, 3, 4, 5, 0, 1, 2, 0, 1, 2, 6, 7, 8, 0, 1, 2>>)

(* C1: for x of shape (batch_size, F) and candidate_ids with entries in
   [0, batch_size), output[i][j] == x[candidate_ids[i][j]] for every row i
   and candidate j, and the docstring example gives the documented output. *)
C1_SharedPool ==
    (pc = "done" /\ fn = "get_candidate_values"
        /\ Len(args.x.shape) = 2 /\ IdsWithin(BatchSize)) =>
        /\ result.status = "ok"
        /\ result.value.shape = <<BatchSize, NumCandidates, LastAxis>>
        /\ \A i \in 0..(BatchSize - 1), j \in 0..(NumCandidates - 1),
              f \in 0..(LastAxis - 1) :
               At(result.value, <<i, j, f>>) =
                   At(args.x, <<At(args.candidate_ids, <<i, j>>), f>>)
        /\ get_candidate_values_of(DocExampleX, DocExampleIds, args.device)
               = Ok(DocExampleOut)

C1_Witness ==
    /\ Returned
    /\ fn = "get_candidate_values"
    /\ args.x = MkTensor(<<2, 2>>, <<1, 2, 3, 4>>)
    /\ args.candidate_ids = MkTensor(<<2, 2>>, <<1, 0, 1, 1>>)
    /\ result.value = MkTensor(<<2, 2, 2>>, <<3, 4, 1, 2, 3, 4, 3, 4>>)

(* C2 as stated: for x of shape (batch_size, d1, ..., dk), k >= 1, and
   candidate_ids with entries in [0, batch_size), the pool has shape
   (batch_size, F) with F = d1*...*dk and the result has shape
   (batch_size, num_candidates, F). *)
C2_ShapeProductOfAxes ==
    (pc = "done" /\ fn = "get_candidate_values"
        /\ Len(args.x.shape) >= 2 /\ IdsWithin(BatchSize)) =>
        LET F == ProdFrom(args.x.shape, 2)
        IN  /\ batch_flatten_of(args.x) = Ok(MkTensor(<<BatchSize, F>>, args.x.data))
            /\ result.status = "ok"
            /\ result.value.shape = <<BatchSize, NumCandidates, F>>

(* C2 amended: for x of shape (batch_size, d1, ..., dk), k >= 1, with no
   empty axis and candidate_ids with entries in [0, batch_size), the pool
   has shape (batch_size*d1*...*d(k-1), dk): only the last axis is the
   feature axis; the result has shape (batch_size, num_candidates, dk). *)
C2_ShapeLastAxis ==
    (pc = "done" /\ fn = "get_candidate_values"
        /\ Len(args.x.shape) >= 2 /\ IdsWithin(BatchSize)) =>
        /\ batch_flatten_of(args.x) = Ok(MkTensor(<<PoolRows, LastAxis>>, args.x.data))
        /\ result.status = "ok"
        /\ result.value.shape = <<BatchSize, NumCandidates, LastAxis>>

C2_Witness ==
    /\ Returned
    /\ fn = "get_candidate_values"
    /\ args.x.shape = <<2, 2, 1>>
    /\ args.candidate_ids.shape = <<2, 2>>
    /\ IdsWithin(BatchSize)
    /\ result.value.shape = <<2, 2, 1>>

(* C9 as stated: with at least one entry of candidate_ids outside
   [0, batch_size), get_candidate_values never returns a tensor. *)
C9_OutOfBatchRangeFails ==
    (pc = "done" /\ fn = "get_candidate_values" /\ ~IdsWithin(BatchSize)) =>
        result.status = "error"

(* C9 amended: the entries are checked against the rows of the pool
   batch_flatten(x), R = batch_size*d1*...*d(k-1), and only by the CPU
   kernel: with an entry outside [0, R) the call fails on CPU and on GPU
   returns zeros at that candidate; with every entry in [0, R), entries in
   [batch_size, R) included, the call returns. *)
C9_OutOfPoolRange ==
    (pc = "done" /\ fn = "get_candidate_values") =>
        /\ (~IdsWithin(PoolRows) /\ args.device = "CPU") =>
               result.status = "error"
        /\ (~IdsWithin(PoolRows) /\ args.device = "GPU") =>
               /\ result.status = "ok"
               /\ \A i \in 0..(BatchSize - 1), j \in 0..(NumCandidates - 1),
                     f \in 0..(LastAxis - 1) :
                      LET id == At(args.candidate_ids, <<i, j>>)
                      IN  (id < 0 \/ id >= PoolRows) =>
                              At(result.value, <<i, j, f>>) = 0
        /\ IdsWithin(PoolRows) => result.status = "ok"

C9_Witness ==
    /\ Failed
    /\ fn = "get_candidate_values"
    /\ args.device = "CPU"
    /\ args.x.shape = <<2, 2, 1>>
    /\ args.candidate_ids = MkTensor(<<2, 1>>, <<0, -1>>)


(***************************************************************************)
(* tf.math.equal(x, y) broadcasts the two shapes (aligned at the last      *)
(* axis, an axis of size 1 stretched) and raises when they are             *)
(* incompatible; tf.cast(_, tf.float32) turns True/False into 1/0;         *)
(* tf.reduce_mean sums all elements and divides by their number, which for *)
(* no elements is 0/0 = NaN.  A float is kept as the exact fraction        *)
(* num/den.                                                                *)
(***************************************************************************)
Max(a, b) == IF a >= b THEN a ELSE b

(* Size of axis k (counted in the broadcast rank r) of shape s. *)
AxisOf(s, k, r) == IF k <= r - Len(s) THEN 1 ELSE s[k - (r - Len(s))]

BroadcastShape(sx, sy) ==
    LET r == Max(Len(sx), Len(sy))
    IN  [k \in 1..r |-> IF AxisOf(sx, k, r) = 1 THEN AxisOf(sy, k, r)
                        ELSE AxisOf(sx, k, r)]

BroadcastCompatible(sx, sy) ==
    LET r == Max(Len(sx), Len(sy))
    IN  \A k \in 1..r : \/ AxisOf(sx, k, r) = AxisOf(sy, k, r)
                        \/ AxisOf(sx, k, r) = 1
                        \/ AxisOf(sy, k, r) = 1

(* The element of t that position idx of the broadcast shape reads. *)
BroadcastAt(t, idx) ==
    LET r == Len(idx)
        off == r - Len(t.shape)
    IN  At(t, [k \in 1..Len(t.shape) |-> IF t.shape[k] = 1 THEN 0 ELSE idx[k + off]])

(* tf.math.equal that accepts only identical shapes. *)
EqualSameShapeOnly(x, y) ==
    IF x.shape # y.shape THEN Raise("InvalidArgumentError")
    ELSE Ok(MkTensor(x.shape, [p \in 1..NumElements(x.shape) |-> x.data[p] = y.data[p]]))

Equal(x, y) ==
    IF ~BroadcastCompatible(x.shape, y.shape) THEN Raise("InvalidArgumentError")
    ELSE LET shape == BroadcastShape(x.shape, y.shape)
         IN  Ok(MkTensor(shape,
                 [p \in 1..NumElements(shape) |->
                     LET idx == Unravel(shape, p - 1)
                     IN  BroadcastAt(x, idx) = BroadcastAt(y, idx)]))

Cast(t) == MkTensor(t.shape, [p \in 1..Len(t.data) |-> IF t.data[p] THEN 1 ELSE 0])

RECURSIVE SumUpTo(_, _)
SumUpTo(d, k) == IF k = 0 THEN 0 ELSE SumUpTo(d, k - 1) + d[k]

NaN == [nan |-> TRUE]
Float(num, den) == [nan |-> FALSE, num |-> num, den |-> den]

(* tf.reduce_sum in place of tf.reduce_mean. *)
ReduceSum(t) == Float(SumUpTo(t.data, Len(t.data)), 1)

ReduceMean(t) ==
    IF Len(t.data) = 0 THEN NaN
    ELSE Float(SumUpTo(t.data, Len(t.data)), Len(t.data))

reduce_mean_equal_of(x, y) ==
    LET eq == Equal(x, y)
    IN  IF eq.status # "ok" THEN eq ELSE Ok(ReduceMean(Cast(eq.value)))

EqShapes == {s \in Shapes : Len(s) <= MaxEqRank}

EqTensors == UNION {TensorsOfShape(s) : s \in EqShapes}

InitReduceMeanEqual ==
    /\ pc = "call"
    /\ fn = "reduce_mean_equal"
    /\ \/ \E tx \in EqTensors, ty \in EqTensors :
              /\ HasElements(tx) /\ HasElements(ty)
              /\ args = [x |-> tx, y |-> ty]
       \/ \E tx \in EqTensors, ty \in EqTensors :
              /\ ~(HasElements(tx) /\ HasElements(ty))
              /\ args = [x |-> tx, y |-> ty]
    /\ result = NoResult

reduce_mean_equal ==
    /\ pc = "call"
    /\ fn = "reduce_mean_equal"
    /\ result' = reduce_mean_equal_of(args.x, args.y)
    /\ pc' = "done"
    /\ UNCHANGED <<fn, args>>

SpecReduceMeanEqual == InitReduceMeanEqual /\ [][reduce_mean_equal]_vars

(* Positions at which two tensors of one shape hold equal elements. *)
Matches(x, y) == Cardinality({p \in 1..Len(x.data) : x.data[p] = y.data[p]})

IsFraction(v, count, total) ==
    /\ ~v.nan
    /\ v.den > 0
    /\ v.num * total = count * v.den

InUnitInterval(v) == ~v.nan /\ v.den > 0 /\ 0 <= v.num /\ v.num <= v.den

(* C5 as stated: for every x, y of identical shape reduce_mean_equal returns
   (number of equal positions) / (number of positions), a scalar in
   [0.0, 1.0]. *)
C5_EqualityRate ==
    (pc = "done" /\ fn = "reduce_mean_equal" /\ args.x.shape = args.y.shape) =>
        /\ result.status = "ok"
        /\ IsFraction(result.value, Matches(args.x, args.y), Len(args.x.data))
        /\ InUnitInterval(result.value)

(* C5 amended: for every x, y of identical shape with at least one position
   reduce_mean_equal returns (number of equal positions) / (number of
   positions), a scalar in [0.0, 1.0] (x=[1,2,3,4], y=[1,0,3,0] gives 0.5);
   for tensors with no position it returns NaN. *)
C5_EqualityRateNonEmpty ==
    (pc = "done" /\ fn = "reduce_mean_equal" /\ args.x.shape = args.y.shape) =>
        /\ result.status = "ok"
        /\ Len(args.x.data) >= 1 =>
               /\ IsFraction(result.value, Matches(args.x, args.y), Len(args.x.data))
               /\ InUnitInterval(result.value)
        /\ Len(args.x.data) = 0 => result.value = NaN
        /\ LET r == reduce_mean_equal_of(MkTensor(<<4>>, <<1, 2, 3, 4>>),
                                         MkTensor(<<4>>, <<1, 0, 3, 0>>))
           IN  r.status = "ok" /\ IsFraction(r.value, 1, 2)

C5_Witness ==
    /\ Returned
    /\ fn = "reduce_mean_equal"
    /\ args.x = MkTensor(<<2>>, <<1, 0>>)
    /\ args.y = MkTensor(<<2>>, <<1, 1>>)
    /\ result.value = Float(1, 2)

(* C8 as stated: with x and y of different shapes reduce_mean_equal never
   returns a value. *)
C8_ShapeMismatchFails ==
    (pc = "done" /\ fn = "reduce_mean_equal" /\ args.x.shape # args.y.shape) =>
        result.status = "error"

(* Two shapes agree up to broadcasting: aligned at the last axis, the sizes
   of each common axis are equal or one of them is 1. *)
AgreeUpToBroadcast(sx, sy) ==
    \A k \in 0..(Len(sx) - 1) :
        k < Len(sy) =>
            LET dx == sx[Len(sx) - k]
                dy == sy[Len(sy) - k]
            IN  dx = dy \/ dx = 1 \/ dy = 1

(* C8 amended: with x and y of different shapes reduce_mean_equal fails at
   the call exactly when the shapes cannot be broadcast together; shapes
   that differ only in axes of size 1 or in rank are broadcast and a value
   is returned: a fraction in [0, 1] over the positions of the broadcast
   shape, or NaN when that shape has no position. *)
C8_ShapeMismatchBroadcast ==
    (pc = "done" /\ fn = "reduce_mean_equal" /\ args.x.shape # args.y.shape) =>
        /\ ~AgreeUpToBroadcast(args.x.shape, args.y.shape) => result.status = "error"
        /\ AgreeUpToBroadcast(args.x.shape, args.y.shape) =>
               /\ result.status = "ok"
               /\ LET positions == Indices(BroadcastShape(args.x.shape, args.y.shape))
                      equal == {idx \in positions :
                                   BroadcastAt(args.x, idx) = BroadcastAt(args.y, idx)}
                  IN  IF positions = {} THEN result.value = NaN
                      ELSE /\ IsFraction(result.value, Cardinality(equal),
                                         Cardinality(positions))
                           /\ InUnitInterval(result.value)

C8_Witness ==
    /\ Returned
    /\ fn = "reduce_mean_equal"
    /\ args.x = MkTensor(<<1>>, <<1>>)
    /\ args.y = MkTensor(<<2>>, <<1, 0>>)
    /\ result.value = Float(1, 2)

(***************************************************************************)
(* random_indices(batch_size, n, n_max): tf.random.uniform with            *)
(* dtype=tf.int32, minval 0 and maxval=n_max draws each element from       *)
(* [0, n_max); tf.zeros gives float32 zeros.                               *)
(***************************************************************************)
MkTyped(s, d, dtype) == [shape |-> s, data |-> d, dtype |-> dtype]

(* A draw range that includes maxval. *)
UniformInclusive(maxval) == 0..maxval

Uniform(maxval) == 0..(maxval - 1)

Zeros(s) == MkTyped(s, [p \in 1..NumElements(s) |-> 0], "float32")

InitRandomIndices ==
    /\ pc = "call"
    /\ fn = "random_indices"
    /\ \E b \in 1..MaxDim, n \in 1..MaxDim, m \in -1..MaxElems :
           /\ b * n <= MaxElems
           /\ args = [batch_size |-> b, n |-> n, n_max |-> m]
    /\ result = NoResult

random_indices ==
    /\ pc = "call"
    /\ fn = "random_indices"
    /\ LET shape == <<args.batch_size, args.n>>
       IN  IF args.n_max > 0
             THEN \E d \in [1..NumElements(shape) -> Uniform(args.n_max)] :
                      result' = Ok(MkTyped(shape, d, "int32"))
           ELSE result' = Ok(Zeros(shape))
    /\ pc' = "done"
    /\ UNCHANGED <<fn, args>>

SpecRandomIndices == InitRandomIndices /\ [][random_indices]_vars

(* C6: for positive batch_size and n and any integer n_max, random_indices
   returns a tensor of shape (batch_size, n) without raising; when
   n_max > 0 every element is an integer in [0, n_max), when n_max <= 0
   every element is a floating-point zero. *)
C6_RandomIndices ==
    (pc = "done" /\ fn = "random_indices") =>
        /\ result.status = "ok"
        /\ result.value.shape = <<args.batch_size, args.n>>
        /\ Len(result.value.data) = args.batch_size * args.n
        /\ args.n_max > 0 =>
               /\ result.value.dtype = "int32"
               /\ \A p \in 1..Len(result.value.data) :
                      /\ result.value.data[p] >= 0
                      /\ result.value.data[p] < args.n_max
        /\ args.n_max <= 0 =>
               /\ result.value.dtype = "float32"
               /\ \A p \in 1..Len(result.value.data) : result.value.data[p] = 0

C6_Witness ==
    /\ Returned
    /\ fn = "random_indices"
    /\ args = [batch_size |-> 2, n |-> 2, n_max |-> 2]
    /\ result.value.data = <<1, 0, 0, 1>>

(***************************************************************************)
(* All five helpers together.                                              *)
(***************************************************************************)
Init ==
    \/ InitRandomIndices
    \/ InitBatchFlatten
    \/ InitPadRight
    \/ InitGetCandidateValues
    \/ InitReduceMeanEqual

Next ==
    \/ random_indices
    \/ batch_flatten
    \/ pad_right
    \/ get_candidate_values
    \/ reduce_mean_equal

Spec == Init /\ [][Next]_vars

====
